---- MODULE Spec2Model ----
(***************************************************************************)
(* A model of the KMRCL RAG backend: the in-memory vector index and the    *)
(* /ingest, /ingest-json, /clear and /ask handlers, in the three variants  *)
(* the repository holds:                                                   *)
(*   "part_000"  src/unnamed/part_000  VECTOR_STORE + NEXT_ID              *)
(*   "part_001"  src/unnamed/part_001  the same, plus row-level ingestion  *)
(*   "server"    src/server.js         VertexDB (random-vector fallback)   *)
(* A handler runs to completion between two awaits (Node's event loop), so *)
(* one action is the code from one suspension point to the next.           *)
(* The handlers that parse a JSON answer of the completion service         *)
(* (server.js /ask and /api/gemini/analyze, analyzeDocuments of part_003)  *)
(* are modelled from the completion call to the response.                  *)
(***************************************************************************)
EXTENDS Integers, Sequences, FiniteSets, TLC

\* ------------------------------------------------------------------ bounds
\* Number of ingestion requests (/ingest or /ingest-json) over a run.
MaxIngest == 2
\* Number of /ask requests in the runs that interleave them with ingestion.
MaxAsks == 1
\* Number of /ask requests in the runs that ask again on a settled index.
MaxReAsks == 2
\* Number of ingestion requests in the runs that also hold /ask requests.
MaxAskIngest == 1
\* Number of /clear requests over a run.
MaxClears == 1
\* Number of upstream calls (embedding, completion) that fail over a run.
MaxFail == 1

\* Number of requests for a JSON answer over a run.
MaxAnalyze == 2

\* Longest of the short texts chunkText is called with, and largest chunk
\* size tried on them.
MaxLen == 5
MaxSize == 3

\* Longest text sanitizeContent is called with.
MaxText == 5

\* Number of training jobs started over a run.
MaxJobs == 2

\* Number of Drive requests over a run, and of browser sessions.
MaxDrive == 2
MaxSessions == 2

\* ------------------------------------------------------- program constants
CHUNK_SIZE == 1200
CHUNK_OVERLAP == 200
MAX_SNIPPETS == 12
\* Characters of the raw completion text the analyze handlers keep in the
\* fallback structure (`rawOutput.substring(0, 500)`).
SUMMARY_CHARS == 500

\* The retrieval budget of the design (spec 4.5); the handlers have none.
maxChars == 2000
maxChunks == 50

Variants == {"part_000", "part_001", "server"}

Min(a, b) == IF a < b THEN a ELSE b

\* --------------------------------------------------------------- chunkText
\* A text is represented by its length; a chunk by the half-open range
\* [start, end) of the text it is the slice of.
RECURSIVE chunkFrom(_, _, _, _)
chunkFrom(len, size, overlap, i) ==
    IF ~(i < len) THEN <<>>
    ELSE LET end == Min(i + size, len)
             chunk == [start |-> i, end |-> end]
         IN  IF end = len THEN <<chunk>>
             ELSE LET n == end - overlap
                  IN  <<chunk>> \o chunkFrom(len, size, overlap, IF n < 0 THEN 0 ELSE n)

chunkText(len, size, overlap) ==
    IF len = 0 THEN <<>> ELSE chunkFrom(len, size, overlap, 0)

\* ------------------------------------------------------------- tag strings
\* A tag is a sequence of one-character strings, so that toLowerCase and
\* includes are computed rather than assumed.
toLowerCase(s) ==
    [i \in 1..Len(s) |-> CASE s[i] = "A" -> "a" [] s[i] = "B" -> "b" [] OTHER -> s[i]]

includes(s, sub) ==
    \E i \in 0..(Len(s) - Len(sub)) :
        \A j \in 1..Len(sub) : s[i + j] = sub[j]

\* The candidate filter of /ask (an empty filter string is falsy: no filter).
tagOk(value, filter) ==
    IF filter # <<>> THEN includes(toLowerCase(value), toLowerCase(filter)) ELSE TRUE

matches(x, fsys, fsub) == tagOk(x.system, fsys) /\ tagOk(x.subsystem, fsub)

\* ------------------------------------------------------- cosine similarity
\* Vectors have integer components and an integral norm, so that
\* dot / (sqrt(na) * sqrt(nb) + 1e-12) is an exact rational num / (den + eps)
\* with eps a positive infinitesimal.
Vectors == { <<1, 0>>, <<0, 1>>, <<3, 4>>, <<0, 0>> }

dotProduct(a, b) == a[1] * b[1] + a[2] * b[2]

sqrtInt(n) == CHOOSE r \in 0..n : r * r = n

cosineSim(a, b) ==
    [num |-> dotProduct(a, b),
     den |-> sqrtInt(dotProduct(a, a)) * sqrtInt(dotProduct(b, b))]

\* s < t for s = num/(den+eps): cross-multiplied, eps breaking exact ties.
scoreLess(s, t) ==
    \/ s.num * t.den < t.num * s.den
    \/ s.num * t.den = t.num * s.den /\ s.num < t.num

\* Array.prototype.sort with (a, b) => b.score - a.score: a stable sort,
\* descending by score (insertion from the left keeps equal scores in order).
RECURSIVE insertDesc(_, _)
insertDesc(sorted, x) ==
    IF sorted = <<>> THEN <<x>>
    ELSE IF scoreLess(Head(sorted).score, x.score)
         THEN <<x>> \o sorted
         ELSE <<Head(sorted)>> \o insertDesc(Tail(sorted), x)

RECURSIVE sortDesc(_)
sortDesc(s) ==
    IF s = <<>> THEN <<>>
    ELSE insertDesc(sortDesc(SubSeq(s, 1, Len(s) - 1)), s[Len(s)])

\* A filter that keeps every record.
filterSeq_KeepAll(s, fsys, fsub) == s

RECURSIVE filterSeq(_, _, _)
filterSeq(s, fsys, fsub) ==
    IF s = <<>> THEN <<>>
    ELSE IF matches(Head(s), fsys, fsub)
         THEN <<Head(s)>> \o filterSeq(Tail(s), fsys, fsub)
         ELSE filterSeq(Tail(s), fsys, fsub)

\* Array.prototype.slice(0, n): a negative n counts from the end.
slice(s, n) ==
    SubSeq(s, 1, IF n < 0 THEN (IF Len(s) + n < 0 THEN 0 ELSE Len(s) + n)
                 ELSE Min(n, Len(s)))

\* ---------------------------------------------------------------- inputs
\* A document of a request: its name, media type and tags, the length of
\* its text, whether the text is whitespace only (blank), whether it looks
\* tabular, the rows a table parse of it yields, and the vectors the
\* embedding service returns for its chunks and rows.
DocA ==
    [name |-> "a.txt", mime |-> "text/plain", len |-> 2200, blank |-> FALSE,
     tabular |-> FALSE, rows |-> 0, rowLen |-> 0,
     system |-> <<"A", "b">>, subsystem |-> <<>>,
     vecs |-> << <<1, 0>>, <<3, 4>> >>, rowVecs |-> <<>>]

DocB ==
    [name |-> "b.txt", mime |-> "text/plain", len |-> 64, blank |-> FALSE,
     tabular |-> FALSE, rows |-> 0, rowLen |-> 0,
     system |-> <<"B">>, subsystem |-> <<"a">>,
     vecs |-> << <<0, 1>> >>, rowVecs |-> <<>>]

DocEmpty ==
    [name |-> "e.txt", mime |-> "text/plain", len |-> 0, blank |-> TRUE,
     tabular |-> FALSE, rows |-> 0, rowLen |-> 0,
     system |-> <<>>, subsystem |-> <<>>,
     vecs |-> <<>>, rowVecs |-> <<>>]

\* 3000 characters of filler text: three chunks.
DocFiller ==
    [name |-> "f.txt", mime |-> "text/plain", len |-> 3000, blank |-> FALSE,
     tabular |-> FALSE, rows |-> 0, rowLen |-> 0,
     system |-> <<>>, subsystem |-> <<>>,
     vecs |-> << <<1, 0>>, <<0, 1>>, <<3, 4>> >>, rowVecs |-> <<>>]

XLSX == "application/vnd.openxmlformats-officedocument.spreadsheetml.sheet"

DocSheet ==
    [name |-> "s.xlsx", mime |-> XLSX, len |-> 30, blank |-> FALSE,
     tabular |-> TRUE, rows |-> 2, rowLen |-> 40,
     system |-> <<"A", "b">>, subsystem |-> <<>>,
     vecs |-> << <<1, 0>> >>, rowVecs |-> << <<3, 4>>, <<0, 1>> >>]

\* The request bodies: the documents (or files) of one ingestion request.
Batches ==
    << <<>>, <<DocA, DocB>>, <<DocEmpty, DocB>>, <<DocSheet>>, <<DocFiller, DocEmpty>> >>


\* The handlers that ask the completion service for a JSON object and parse
\* its output: /ask and /api/gemini/analyze of server.js, analyzeDocuments of
\* the Gemini controller (part_003).
Handlers == {"/ask", "/api/gemini/analyze", "analyzeDocuments"}

\* The outputs of the completion service: the length of the text, whether
\* the text is a JSON document, and whether it comes wrapped in ```json
\* fences.
Completions ==
    {[len |-> l, json |-> j, fenced |-> f] :
        l \in {40, SUMMARY_CHARS, SUMMARY_CHARS + 1, 900}, j \in BOOLEAN, f \in BOOLEAN}

Analyses == 1..MaxAnalyze

NoResult == [status |-> 0, parsed |-> FALSE, rawKept |-> 0, flagged |-> FALSE]

IdleAnalysis ==
    [pc |-> "idle", handler |-> "", out |-> [len |-> 0, json |-> FALSE, fenced |-> FALSE],
     resp |-> NoResult]

Reqs == 1..MaxIngest
Asks == 1..MaxReAsks

\* ----------------------------------------------------------------- state
VARIABLES
    variant,    \* which of the three servers runs
    store,      \* VECTOR_STORE / vertexDB.documents
    nextId,     \* NEXT_ID
    ing,        \* the ingestion requests: position in the handler, locals
    rowTasks,   \* the detached row callbacks of /ingest-json (forEach(async))
    ask,        \* the /ask requests
    clears,     \* number of /clear requests served
    fails,      \* number of embedding calls that have failed
    issued,     \* history: every id assigned, in order of assignment
    analysis,   \* the requests that ask the completion service for JSON
    hung,       \* the requests whose pending upstream call never returns
    vdb,        \* VertexDB's embeddings, metadata and id map (server.js)
    chunker,    \* one run of the loop of chunkText
    sanit,      \* calls of sanitizeContent
    mcp,        \* MCP_Server: nextJobId, trainingJobs and their timers
    drive       \* driveController: sessions, the shared OAuth client, requests

vars == <<variant, store, nextId, ing, rowTasks, ask, clears, fails, issued,
          analysis, hung, vdb, chunker, sanit, mcp, drive>>

\* The components the ingestion, /ask and analysis handlers never touch.
apart == <<chunker, sanit, mcp, drive>>

\* The upstream call request n of the given kind awaits never returns.
isHung(kind, n) == [kind |-> kind, n |-> n] \in hung

NoResp == [status |-> 0, error |-> "", added |-> 0, total |-> 0]
\* A 200 response that reports `added` as the total.
okResp_TotalIsAdded(added, total) ==
    [status |-> 200, error |-> "", added |-> added, total |-> added]

okResp(added, total) == [status |-> 200, error |-> "", added |-> added, total |-> total]
errResp(status, error) == [status |-> status, error |-> error, added |-> 0, total |-> 0]

IdleIngest ==
    [pc |-> "idle", endpoint |-> "", batch |-> 1, di |-> 0, ci |-> 0,
     didRow |-> FALSE, added |-> 0, resp |-> NoResp,
     calls |-> 0, appended |-> 0, failed |-> 0, late |-> 0,
     before |-> 0, clears0 |-> 0]

\* The bodies of the /ask requests: query ("" when missing), k (MAX_SNIPPETS
\* when the body gives none), the tag filters, and the vector the embedding
\* service returns for the query.
AskBodies ==
    << [query |-> "", k |-> MAX_SNIPPETS, system |-> <<>>, subsystem |-> <<>>, vec |-> <<0, 0>>],
       [query |-> "q1", k |-> MAX_SNIPPETS, system |-> <<>>, subsystem |-> <<>>, vec |-> <<1, 0>>],
       [query |-> "q1", k |-> 1, system |-> <<"a">>, subsystem |-> <<>>, vec |-> <<1, 0>>],
       [query |-> "q2", k |-> 2, system |-> <<"B">>, subsystem |-> <<>>, vec |-> <<3, 4>>],
       [query |-> "q2", k |-> 0, system |-> <<>>, subsystem |-> <<"A">>, vec |-> <<3, 4>>],
       [query |-> "q1", k |-> MAX_SNIPPETS, system |-> <<"z">>, subsystem |-> <<>>, vec |-> <<1, 0>>] >>

NoAnswer ==
    [status |-> 0, error |-> "", answered |-> FALSE, sources |-> <<>>, used |-> 0, total |-> 0]
askError(status, error) == [NoAnswer EXCEPT !.status = status, !.error = error]

IdleAsk ==
    [pc |-> "idle", body |-> 1, qEmb |-> <<0, 0>>, seen |-> <<>>, scored |-> <<>>,
     context |-> <<>>, resp |-> NoAnswer, embedCalls |-> 0, chatCalls |-> 0,
     emptyAtArrival |-> FALSE, failedCall |-> ""]

docsOf(rec) == Batches[rec.batch]

\* `!raw || !raw.trim()`
isBlank(doc) == doc.len = 0 \/ doc.blank

\* Row-level ingestion of /ingest-json (part_001, server.js): the text is CSV
\* or looks tabular, and csvToTable returns rows.
rowLevelJson(v, doc) ==
    /\ v # "part_000"
    /\ (doc.mime = "text/csv" \/ doc.tabular)
    /\ doc.rows > 0

\* Row-level ingestion of /ingest (part_001, server.js): a spreadsheet.
rowLevelFile(v, doc) == v # "part_000" /\ doc.mime = XLSX

\* id of the record being appended: NEXT_ID, or documents.length + 1.
newId(v, nid, st) == IF v = "server" THEN Len(st) + 1 ELSE nid

\* `id: NEXT_ID` without the increment: the counter C1 depends on, left out.
nextIdAfter_NoIncrement(v, nid) == nid

\* NEXT_ID after the append (`NEXT_ID++`).
nextIdAfter(v, nid) == IF v = "server" THEN nid ELSE nid + 1

\* A /clear that empties the store and keeps the counter.
nextIdOnClear_Keep(v, nid) == nid

\* NEXT_ID after /clear (`NEXT_ID = 1`).
nextIdOnClear(v, nid) == IF v = "server" THEN nid ELSE 1

item(id, r, di, doc, kind, pos, len, vec, src) ==
    [id |-> id, req |-> r, doc |-> di, fileName |-> doc.name, kind |-> kind,
     position |-> pos, len |-> len, system |-> doc.system,
     subsystem |-> doc.subsystem, embedding |-> vec, src |-> src]

chunksOf(doc) == chunkText(doc.len, CHUNK_SIZE, CHUNK_OVERLAP)
chunkLen(doc, ci) == chunksOf(doc)[ci + 1].end - chunksOf(doc)[ci + 1].start

\* First document at or after index `from` whose text is not blank
\* (`if (!raw.trim()) continue;`), or Len + 1.
nextDoc(docs, from) ==
    IF \E j \in from..Len(docs) : ~isBlank(docs[j])
    THEN CHOOSE j \in from..Len(docs) :
             /\ ~isBlank(docs[j])
             /\ \A i \in from..(j - 1) : isBlank(docs[i])
    ELSE Len(docs) + 1

\* /ingest-json from the top of the loop at document `from` to the next
\* await (the embedding of chunk 0 of the next non-blank document, its row
\* callbacks started on the way) or to the response.
jsonContinue(v, rec, r, from, st) ==
    LET docs == docsOf(rec)
        j == nextDoc(docs, from)
    IN  IF j > Len(docs)
        THEN [rec |-> [rec EXCEPT !.pc = "done", !.resp = okResp(rec.added, Len(st))],
              tasks |-> {}]
        ELSE LET spawn == IF rowLevelJson(v, docs[j])
                          THEN {[req |-> r, di |-> j, idx |-> i] : i \in 0..(docs[j].rows - 1)}
                          ELSE {}
             IN  [rec |-> [rec EXCEPT !.pc = "embed", !.di = j, !.ci = 0,
                                      !.calls = @ + 1 + Cardinality(spawn)],
                  tasks |-> spawn]

\* /ingest from the top of the loop at file `from` to the next await (the
\* embedding of row 0, or extractText) or to the response.
fileContinue(v, rec, from, st) ==
    LET docs == docsOf(rec)
    IN  IF from > Len(docs)
        THEN [rec EXCEPT !.pc = "done", !.resp = okResp(rec.added, Len(st))]
        ELSE IF rowLevelFile(v, docs[from]) /\ docs[from].rows > 0
             THEN [rec EXCEPT !.pc = "rowEmbed", !.di = from, !.ci = 0,
                              !.didRow = FALSE, !.calls = @ + 1]
             ELSE [rec EXCEPT !.pc = "extract", !.di = from, !.ci = 0,
                              !.didRow = rowLevelFile(v, docs[from])]

\* VertexDB's constructor and clear(): embeddings = [], metadata = [],
\* index = new Map().
EmptyVdb == [embeddings |-> <<>>, metadata |-> <<>>, index |-> <<>>]

\* The metadata object addDocument is called with.
metaOf(x) ==
    [type |-> x.kind, fileName |-> x.fileName, system |-> x.system,
     subsystem |-> x.subsystem, position |-> x.position]

\* this.index.set(id, doc) on a Map.
mapSet(m, id, doc) ==
    [k \in (DOMAIN m) \cup {id} |-> IF k = id THEN doc ELSE m[k]]

\* addDocument that leaves the embeddings array alone.
addDocument_NoEmbeddingPush(v, ver, x) ==
    IF ver = "server"
    THEN [embeddings |-> v.embeddings,
          metadata |-> Append(v.metadata, metaOf(x)),
          index |-> mapSet(v.index, x.id, x)]
    ELSE v

\* The tail of VertexDB.addDocument after documents.push(doc):
\* embeddings.push(embedding); metadata.push(metadata); index.set(doc.id, doc).
\* Only server.js has a VertexDB.
addDocument(v, ver, x) ==
    IF ver = "server"
    THEN [embeddings |-> Append(v.embeddings, x.embedding),
          metadata |-> Append(v.metadata, metaOf(x)),
          index |-> mapSet(v.index, x.id, x)]
    ELSE v

\* ---------------------------------------------------------- chunkText loop
\* String.prototype.slice(from, to) on a text held as a sequence of characters.
sliceText(text, from, to) == SubSeq(text, from + 1, to)

\* A chunk end that takes the whole rest of the text.
endOf_Whole(i, size, len) == len

\* const end = Math.min(i + size, text.length);
endOf(i, size, len) == Min(i + size, len)

\* A next start without the overlap.
nextStart_NoOverlap(end, overlap) == end

\* A next start one character further than the overlap asks for.
nextStart_OneFurther(end, overlap) == end - overlap + 1

\* i = end - overlap; if (i < 0) i = 0;
nextStart(end, overlap) == IF end - overlap < 0 THEN 0 ELSE end - overlap

\* No call of chunkText in progress; `starts` remembers the value of i at
\* each push.
IdleChunker ==
    [pc |-> "idle", text |-> <<>>, size |-> CHUNK_SIZE, overlap |-> CHUNK_OVERLAP,
     i |-> 0, chunks |-> <<>>, starts |-> <<>>]

\* The texts chunkText is called with: every text over a two-letter alphabet
\* up to MaxLen characters, and long texts for the default size and overlap.
Alphabet == {"a", "b"}
SmallTexts == UNION {[1..n -> Alphabet] : n \in 0..MaxLen}
Letters == <<"a", "b", "c">>
LongText(n) == [p \in 1..n |-> Letters[(p % 3) + 1]]
LongLens == {1, 1000, 1199, 1200, 1201, 2199, 2200, 2201, 3000, 3200, 3201}
ChunkCalls ==
    {[text |-> t, size |-> sz, overlap |-> ov] :
        t \in SmallTexts, sz \in 1..MaxSize, ov \in 0..(MaxSize - 1)}
    \cup {[text |-> LongText(n), size |-> CHUNK_SIZE, overlap |-> CHUNK_OVERLAP] :
              n \in LongLens}

\* chunkText(text, size, overlap) has been called and has not run yet.
called(c) ==
    [IdleChunker EXCEPT !.pc = "called", !.text = c.text, !.size = c.size,
                        !.overlap = c.overlap]

\* if (!text) return []; let i = 0;
ChunkEnter ==
    /\ chunker.pc = "called"
    /\ chunker' = IF chunker.text = <<>>
                  THEN [chunker EXCEPT !.pc = "done"]
                  ELSE [chunker EXCEPT !.pc = "loop", !.i = 0]
    /\ UNCHANGED <<variant, store, nextId, ing, rowTasks, ask, clears, fails,
                   issued, analysis, hung, vdb, sanit, mcp, drive>>

\* One evaluation of the while condition and, when it holds, of the body.
ChunkIter ==
    /\ chunker.pc = "loop"
    /\ LET len == Len(chunker.text)
           end == endOf(chunker.i, chunker.size, len)
           c1 == [chunker EXCEPT
                     !.chunks = Append(@, sliceText(chunker.text, chunker.i, end)),
                     !.starts = Append(@, chunker.i)]
       IN  chunker' = IF ~(chunker.i < len) THEN [chunker EXCEPT !.pc = "done"]
                      ELSE IF end = len THEN [c1 EXCEPT !.pc = "done"]
                      ELSE [c1 EXCEPT !.i = nextStart(end, chunker.overlap)]
    /\ UNCHANGED <<variant, store, nextId, ing, rowTasks, ask, clears, fails,
                   issued, analysis, hung, vdb, sanit, mcp, drive>>
\* --------------------------------------------------------- sanitizeContent
\* The value of a variable that was never assigned.
Undefined == [undefined |-> TRUE]

\* The argument of sanitizeContent: a string, or undefined.
str(t) == [defined |-> TRUE, text |-> t]
undefinedArg == [defined |-> FALSE, text |-> <<>>]

\* One character of each kind the two regular expressions tell apart: a
\* printable character, the space, a line feed (kept by the first expression,
\* whitespace for the second), a form feed (whitespace, but outside the first
\* expression's class), a C0 control character (outside both) and a no-break
\* space (non-ASCII whitespace).
SanChars == {"a", " ", "\n", "\f", "U+0001", "U+00A0"}

\* [\x20-\x7E\x0A\x0D\x09]
keptClass == {"a", " ", "\t", "\n", "\r"}

\* \s
whitespace == {" ", "\t", "\n", "\r", "\f", "U+00A0"}

\* text.replace(/[^\x20-\x7E\x0A\x0D\x09]/g, '')
stripOthers(text) ==
    LET kept(c) == c \in keptClass
    IN  SelectSeq(text, kept)

\* text.replace(/\s+/g, ' '), read from position p on.
RECURSIVE collapseFrom(_, _)
collapseFrom(text, p) ==
    IF p > Len(text) THEN <<>>
    ELSE IF text[p] \in whitespace
         THEN IF p > 1 /\ text[p - 1] \in whitespace
              THEN collapseFrom(text, p + 1)
              ELSE <<" ">> \o collapseFrom(text, p + 1)
         ELSE <<text[p]>> \o collapseFrom(text, p + 1)

collapseWhitespace(text) == collapseFrom(text, 1)

\* String.prototype.trim()
trim(text) ==
    LET solid == {p \in 1..Len(text) : text[p] \notin whitespace}
        first == CHOOSE p \in solid : \A q \in solid : p <= q
        last == CHOOSE p \in solid : \A q \in solid : q <= p
    IN  IF solid = {} THEN <<>> ELSE SubSeq(text, first, last)

\* A sanitizer that collapses the whitespace before it removes the other
\* characters.
sanitizeContent_CollapseFirst(text) ==
    IF ~text.defined
    THEN [threw |-> TRUE, value |-> <<>>]
    ELSE [threw |-> FALSE,
          value |-> trim(stripOthers(collapseWhitespace(text.text)))]

\* exports.sanitizeContent: text.replace(...).replace(...).trim(); reading
\* `replace` of undefined throws a TypeError.
sanitizeContent(text) ==
    IF ~text.defined
    THEN [threw |-> TRUE, value |-> <<>>]
    ELSE [threw |-> FALSE,
          value |-> trim(collapseWhitespace(stripOthers(text.text)))]

NoValue == [threw |-> FALSE, value |-> <<>>]
IdleSanit == [pc |-> "idle", input |-> str(<<>>), out |-> NoValue, again |-> NoValue]

\* The values sanitizeContent is called with: every text over SanChars up to
\* MaxText characters, and undefined.
SanTexts == UNION {[1..n -> SanChars] : n \in 0..MaxText}
SanInputs == {str(t) : t \in SanTexts} \cup {undefinedArg}

\* sanitizeContent(input)
SanitizeCall ==
    /\ sanit.pc = "called"
    /\ sanit' = [sanit EXCEPT !.pc = "once", !.out = sanitizeContent(sanit.input)]
    /\ UNCHANGED <<variant, store, nextId, ing, rowTasks, ask, clears, fails,
                   issued, analysis, hung, vdb, chunker, mcp, drive>>

\* sanitizeContent applied to its own result.
SanitizeAgain ==
    /\ sanit.pc = "once"
    /\ ~sanit.out.threw
    /\ sanit' = [sanit EXCEPT !.pc = "twice",
                              !.again = sanitizeContent(str(sanit.out.value))]
    /\ UNCHANGED <<variant, store, nextId, ing, rowTasks, ask, clears, fails,
                   issued, analysis, hung, vdb, chunker, mcp, drive>>
\* -------------------------------------------------------------- MCP_Server
\* MCP_Server's constructor: trainingJobs = new Map(), nextJobId = 1; no
\* interval timer yet. `timers` holds, per call of simulateTraining, the job
\* id, the closure's `progress` and whether the interval is still set;
\* `issuedIds` remembers every job id startTraining returned.
IdleMcp == [nextJobId |-> 1, jobs |-> <<>>, timers |-> <<>>, issuedIds |-> <<>>]

\* Math.random() * 10, to the whole number below.
Increments == 0..9

\* A counter that is not advanced.
nextJobIdAfter_Same(n) == n

\* this.nextJobId++
nextJobIdAfter(n) == n + 1

\* startTraining: the job is stored under `job-${nextJobId++}` with status
\* 'training' and progress 0, and simulateTraining sets its interval.
StartTraining ==
    /\ Len(mcp.timers) < MaxJobs
    /\ LET jobId == mcp.nextJobId
       IN  mcp' = [nextJobId |-> nextJobIdAfter(mcp.nextJobId),
                   jobs |-> mapSet(mcp.jobs, jobId,
                                   [status |-> "training", progress |-> 0]),
                   timers |-> Append(mcp.timers,
                                     [jobId |-> jobId, progress |-> 0, active |-> TRUE]),
                   issuedIds |-> Append(mcp.issuedIds, jobId)]
    /\ UNCHANGED <<variant, store, nextId, ing, rowTasks, ask, clears, fails,
                   issued, analysis, hung, vdb, chunker, sanit, drive>>

\* One run of the interval callback of the n-th simulateTraining.
Tick(n, inc) ==
    /\ n \in 1..Len(mcp.timers)
    /\ mcp.timers[n].active
    /\ LET t == mcp.timers[n]
           sum == t.progress + inc
           done == sum >= 100
           progress == IF done THEN 100 ELSE sum
           job == mcp.jobs[t.jobId]
       IN  mcp' = [mcp EXCEPT
                      !.timers[n] = [t EXCEPT !.progress = progress,
                                              !.active = ~done],
                      !.jobs[t.jobId] =
                          [status |-> IF done THEN "completed" ELSE job.status,
                           progress |-> progress]]
    /\ UNCHANGED <<variant, store, nextId, ing, rowTasks, ask, clears, fails,
                   issued, analysis, hung, vdb, chunker, sanit, drive>>
\* --------------------------------------------------------- driveController
Sessions == 1..MaxSessions
DriveReqs == 1..MaxDrive

\* The tokens of session s once Google has issued them; NoTokens is
\* req.session.tokens before the callback (undefined).
NoTokens == 0
tokensOf(s) == s

MimeTypes == {"application/pdf", "image/png", "text/plain"}

\* A Drive request that has not arrived. `tokens` is req.session.tokens as
\* the request sees it; `calls` lists the Drive API calls made for the request
\* with the credentials the client carried when each was made.
IdleDriveReq ==
    [pc |-> "idle", handler |-> "", session |-> 1, tokens |-> NoTokens,
     mime |-> "", calls |-> <<>>, status |-> 0]

\* `let oauth2Client;` of driveController (not created yet), the sessions
\* without tokens, no request.
IdleDrive ==
    [client |-> [created |-> FALSE, credentials |-> NoTokens],
     tokens |-> [s \in Sessions |-> NoTokens],
     reqs |-> [q \in DriveReqs |-> IdleDriveReq]]

\* The credentials a Drive API call of request q goes out with: those the
\* module-level oauth2Client holds when the call is made.
credentialsAtCall(d, q) == d.client.credentials

\* getAuthClient(req): create the client if there is none, setCredentials.
getAuthClient(d, tokens) ==
    [d EXCEPT !.client = [created |-> TRUE, credentials |-> tokens]]

\* drive.files.<api>(...) made for request q.
called_api(d, q, api) ==
    [d EXCEPT !.reqs[q].calls =
                  Append(@, [api |-> api, credentials |-> credentialsAtCall(d, q)])]

driveCanStart(q) ==
    /\ drive.reqs[q].pc = "idle"
    /\ IF q = 1 THEN TRUE ELSE drive.reqs[q - 1].pc # "idle"

\* authController.callback: getToken(code) has returned and
\* req.session.tokens = tokens.
AuthCallback(s) ==
    /\ drive.tokens[s] = NoTokens
    /\ drive' = [drive EXCEPT !.tokens[s] = tokensOf(s)]
    /\ UNCHANGED <<variant, store, nextId, ing, rowTasks, ask, clears, fails,
                   issued, analysis, hung, vdb, chunker, sanit, mcp>>

\* listFiles up to `await drive.files.list(...)`.
StartListFiles(q, s) ==
    /\ driveCanStart(q)
    /\ LET d1 == [drive EXCEPT !.reqs[q] =
                      [IdleDriveReq EXCEPT !.pc = "list", !.handler = "listFiles",
                                           !.session = s, !.tokens = drive.tokens[s]]]
           d2 == getAuthClient(d1, drive.tokens[s])
       IN  drive' = called_api(d2, q, "files.list")
    /\ UNCHANGED <<variant, store, nextId, ing, rowTasks, ask, clears, fails,
                   issued, analysis, hung, vdb, chunker, sanit, mcp>>

\* getFileContent up to `await drive.files.get({ fileId, fields })`.
StartGetFileContent(q, s) ==
    /\ driveCanStart(q)
    /\ LET d1 == [drive EXCEPT !.reqs[q] =
                      [IdleDriveReq EXCEPT !.pc = "meta", !.handler = "getFileContent",
                                           !.session = s, !.tokens = drive.tokens[s]]]
           d2 == getAuthClient(d1, drive.tokens[s])
       IN  drive' = called_api(d2, q, "files.get")
    /\ UNCHANGED <<variant, store, nextId, ing, rowTasks, ask, clears, fails,
                   issued, analysis, hung, vdb, chunker, sanit, mcp>>

\* files.get has returned the file's name and type: the content is asked
\* for, by export or by a media download.
MetaReturns(q, mime) ==
    /\ drive.reqs[q].pc = "meta"
    /\ LET d1 == [drive EXCEPT !.reqs[q].pc = "content", !.reqs[q].mime = mime]
       IN  drive' = called_api(d1, q, IF mime = "image/png" THEN "files.get(media)"
                                      ELSE "files.export")
    /\ UNCHANGED <<variant, store, nextId, ing, rowTasks, ask, clears, fails,
                   issued, analysis, hung, vdb, chunker, sanit, mcp>>

\* The content has arrived: text is answered at once, a PDF or an image goes
\* through extractTextFromPDF first.
ContentReturns(q) ==
    /\ drive.reqs[q].pc = "content"
    /\ drive' = IF drive.reqs[q].mime = "text/plain"
                THEN [drive EXCEPT !.reqs[q].pc = "done", !.reqs[q].status = 200]
                ELSE [drive EXCEPT !.reqs[q].pc = "ocr"]
    /\ UNCHANGED <<variant, store, nextId, ing, rowTasks, ask, clears, fails,
                   issued, analysis, hung, vdb, chunker, sanit, mcp>>

\* extractTextFromPDF has returned; files.list has returned.
DriveResponds(q) ==
    /\ drive.reqs[q].pc \in {"ocr", "list"}
    /\ drive' = [drive EXCEPT !.reqs[q].pc = "done", !.reqs[q].status = 200]
    /\ UNCHANGED <<variant, store, nextId, ing, rowTasks, ask, clears, fails,
                   issued, analysis, hung, vdb, chunker, sanit, mcp>>

\* An awaited call rejects: the catch block answers 500.
DriveCallFails(q) ==
    /\ drive.reqs[q].pc \in {"list", "meta", "content", "ocr"}
    /\ drive' = [drive EXCEPT !.reqs[q].pc = "done", !.reqs[q].status = 500]
    /\ UNCHANGED <<variant, store, nextId, ing, rowTasks, ask, clears, fails,
                   issued, analysis, hung, vdb, chunker, sanit, mcp>>

Init ==
    /\ variant \in Variants
    /\ store = <<>>
    /\ nextId = 1
    /\ ing = [r \in Reqs |-> IdleIngest]
    /\ rowTasks = {}
    /\ ask = [a \in Asks |-> IdleAsk]
    /\ clears = 0
    /\ fails = 0
    /\ issued = <<>>
    /\ analysis = [q \in Analyses |-> IdleAnalysis]
    /\ hung = {}
    /\ vdb = EmptyVdb
    /\ chunker = IdleChunker
    /\ sanit = IdleSanit
    /\ mcp = IdleMcp
    /\ drive = IdleDrive

\* Requests are numbered in order of arrival.
canStart(r) == ing[r].pc = "idle" /\ (IF r = 1 THEN TRUE ELSE ing[r - 1].pc # "idle")

\* POST /ingest-json: validation, then the loop up to the first await.
StartIngestJson(r, b) ==
    /\ canStart(r)
    /\ LET rec == [IdleIngest EXCEPT !.endpoint = "/ingest-json", !.batch = b,
                                     !.before = Len(store), !.clears0 = clears]
       IN  IF Len(Batches[b]) = 0
           THEN /\ ing' = [ing EXCEPT ![r] = [rec EXCEPT !.pc = "done",
                                   !.resp = errResp(400, "No documents provided")]]
                /\ rowTasks' = rowTasks
           ELSE LET c == jsonContinue(variant, rec, r, 1, store)
                IN  /\ ing' = [ing EXCEPT ![r] = c.rec]
                    /\ rowTasks' = rowTasks \cup c.tasks
    /\ UNCHANGED <<apart, vdb, analysis, hung, variant, store, nextId, ask, clears, fails, issued>>

\* POST /ingest: validation, then the loop up to the first await.
StartIngestFiles(r, b) ==
    /\ canStart(r)
    /\ LET rec == [IdleIngest EXCEPT !.endpoint = "/ingest", !.batch = b,
                                     !.before = Len(store), !.clears0 = clears]
       IN  IF Len(Batches[b]) = 0
           THEN ing' = [ing EXCEPT ![r] = [rec EXCEPT !.pc = "done",
                                   !.resp = errResp(400, "No files uploaded")]]
           ELSE ing' = [ing EXCEPT ![r] = fileContinue(variant, rec, 1, store)]
    /\ UNCHANGED <<apart, vdb, analysis, hung, variant, store, nextId, rowTasks, ask, clears, fails, issued>>

\* An index that replaces the record of the same document name, kind and
\* position instead of appending.
pushed_Upsert(x) ==
    LET same == {i \in 1..Len(store) :
                    /\ store[i].fileName = x.fileName
                    /\ store[i].kind = x.kind
                    /\ store[i].position = x.position}
    IN  /\ store' = IF same = {} THEN Append(store, x)
                    ELSE [store EXCEPT ![CHOOSE i \in same : TRUE] = x]
        /\ nextId' = nextIdAfter(variant, nextId)
        /\ issued' = Append(issued, x.id)
        /\ vdb' = addDocument(vdb, variant, x)

\* VECTOR_STORE.push({ id: NEXT_ID++, ... }) / the synchronous tail of
\* VertexDB.addDocument.
pushed(x) ==
    /\ store' = Append(store, x)
    /\ nextId' = nextIdAfter(variant, nextId)
    /\ issued' = Append(issued, x.id)
    /\ vdb' = addDocument(vdb, variant, x)

\* The request after appending chunk ci of document di: the next chunk's
\* embedding, or on to the next document.
afterChunk(rec, r, st) ==
    LET doc == docsOf(rec)[rec.di]
        rec1 == [rec EXCEPT !.added = @ + 1, !.appended = @ + 1]
    IN  IF rec.ci + 1 < Len(chunksOf(doc))
        THEN [rec |-> [rec1 EXCEPT !.ci = @ + 1, !.calls = @ + 1], tasks |-> {}]
        ELSE IF rec.endpoint = "/ingest-json"
             THEN jsonContinue(variant, rec1, r, rec.di + 1, st)
             ELSE [rec |-> fileContinue(variant, rec1, rec.di + 1, st), tasks |-> {}]

chunkKind(rec) == IF rec.endpoint = "/ingest" /\ rec.didRow THEN "chunk+row" ELSE "chunk"

\* The embedding of a chunk returned `vec` (from the service, or the random
\* fallback of VertexDB.generateEmbedding): append and go on.
appendChunk(r, vec, src) ==
    LET rec == ing[r]
        doc == docsOf(rec)[rec.di]
        x == item(newId(variant, nextId, store), r, rec.di, doc, chunkKind(rec),
                  rec.ci, chunkLen(doc, rec.ci), vec, src)
        c == afterChunk(IF src = "random" THEN [rec EXCEPT !.failed = @ + 1] ELSE rec,
                        r, Append(store, x))
    IN  /\ pushed(x)
        /\ ing' = [ing EXCEPT ![r] = c.rec]
        /\ rowTasks' = rowTasks \cup c.tasks

EmbedChunkOk(r) ==
    /\ ing[r].pc = "embed"
    /\ ~isHung("ingest", r)
    /\ appendChunk(r, docsOf(ing[r])[ing[r].di].vecs[ing[r].ci + 1], "service")
    /\ UNCHANGED <<apart, analysis, hung, variant, ask, clears, fails>>

\* geminiEmbed throws (upstream error, non-OK response): the handler's catch
\* answers 500.
EmbedChunkFail(r) ==
    /\ fails < MaxFail
    /\ fails' = fails + 1
    /\ ing[r].pc = "embed"
    /\ ~isHung("ingest", r)
    /\ variant # "server"
    /\ ing' = [ing EXCEPT ![r] = [@ EXCEPT !.pc = "done", !.failed = @ + 1,
                                          !.resp = errResp(500, "embed")]]
    /\ UNCHANGED <<apart, vdb, analysis, hung, variant, store, nextId, rowTasks, ask, clears, issued>>

\* VertexDB.generateEmbedding catches the failure and returns a random vector.
EmbedChunkFallback(r, v) ==
    /\ fails < MaxFail
    /\ fails' = fails + 1
    /\ ing[r].pc = "embed"
    /\ ~isHung("ingest", r)
    /\ variant = "server"
    /\ appendChunk(r, v, "random")
    /\ UNCHANGED <<apart, analysis, hung, variant, ask, clears>>

\* ------------------------------------------------ /ingest: rows, extraction
\* `await extractText(...)` returned: a blank text skips the file, otherwise
\* the chunk loop starts.
ExtractDone(r) ==
    /\ ing[r].pc = "extract"
    /\ LET rec == ing[r]
           doc == docsOf(rec)[rec.di]
       IN  ing' = [ing EXCEPT ![r] =
                      IF isBlank(doc)
                      THEN fileContinue(variant, rec, rec.di + 1, store)
                      ELSE [rec EXCEPT !.pc = "embed", !.ci = 0, !.calls = @ + 1]]
    /\ UNCHANGED <<apart, vdb, analysis, hung, variant, store, nextId, rowTasks, ask, clears, fails, issued>>

\* The request after row ci of the spreadsheet: the next row, or
\* didRowIngest = true and on to extractText.
afterRow(rec) ==
    LET doc == docsOf(rec)[rec.di]
        rec1 == [rec EXCEPT !.added = @ + 1, !.appended = @ + 1]
    IN  IF rec.ci + 1 < doc.rows
        THEN [rec1 EXCEPT !.ci = @ + 1, !.calls = @ + 1]
        ELSE [rec1 EXCEPT !.pc = "extract", !.ci = 0, !.didRow = TRUE]

appendRow(r, vec, src) ==
    LET rec == ing[r]
        doc == docsOf(rec)[rec.di]
        x == item(newId(variant, nextId, store), r, rec.di, doc, "row",
                  rec.ci, doc.rowLen, vec, src)
    IN  /\ pushed(x)
        /\ ing' = [ing EXCEPT ![r] =
                      afterRow(IF src = "random" THEN [rec EXCEPT !.failed = @ + 1] ELSE rec)]

EmbedRowOk(r) ==
    /\ ing[r].pc = "rowEmbed"
    /\ ~isHung("ingest", r)
    /\ appendRow(r, docsOf(ing[r])[ing[r].di].rowVecs[ing[r].ci + 1], "service")
    /\ UNCHANGED <<apart, analysis, hung, variant, rowTasks, ask, clears, fails>>

\* part_001: geminiEmbed throws inside the inner try: the warning is logged,
\* didRowIngest stays false and the handler goes on to extractText.
EmbedRowFail(r) ==
    /\ fails < MaxFail
    /\ fails' = fails + 1
    /\ ing[r].pc = "rowEmbed"
    /\ ~isHung("ingest", r)
    /\ variant = "part_001"
    /\ ing' = [ing EXCEPT ![r] = [@ EXCEPT !.pc = "extract", !.ci = 0,
                                          !.didRow = FALSE, !.failed = @ + 1]]
    /\ UNCHANGED <<apart, vdb, analysis, hung, variant, store, nextId, rowTasks, ask, clears, issued>>

EmbedRowFallback(r, v) ==
    /\ fails < MaxFail
    /\ fails' = fails + 1
    /\ ing[r].pc = "rowEmbed"
    /\ ~isHung("ingest", r)
    /\ variant = "server"
    /\ appendRow(r, v, "random")
    /\ UNCHANGED <<apart, analysis, hung, variant, rowTasks, ask, clears>>

\* ------------------------------------- /ingest-json: detached row callbacks
\* A callback of parsed.rows.forEach(async ...) resumes after its embedding:
\* it appends and increments the handler's `added`, whether or not the
\* handler has answered in the meantime.
taskAppend(t, vec, src) ==
    LET rec == ing[t.req]
        doc == docsOf(rec)[t.di]
        x == item(newId(variant, nextId, store), t.req, t.di, doc, "row",
                  t.idx, doc.rowLen, vec, src)
    IN  /\ pushed(x)
        /\ rowTasks' = rowTasks \ {t}
        /\ ing' = [ing EXCEPT ![t.req] =
                      [@ EXCEPT !.added = @ + 1, !.appended = @ + 1,
                                !.failed = IF src = "random" THEN @ + 1 ELSE @,
                                !.late = IF rec.pc = "done" THEN @ + 1 ELSE @]]

RowTaskOk(t) ==
    /\ t \in rowTasks
    /\ taskAppend(t, docsOf(ing[t.req])[t.di].rowVecs[t.idx + 1], "service")
    /\ UNCHANGED <<apart, analysis, hung, variant, ask, clears, fails>>

\* part_001: geminiEmbed throws in the callback; nothing awaits its promise,
\* so the rejection is unhandled and the callback ends.
RowTaskFail(t) ==
    /\ fails < MaxFail
    /\ fails' = fails + 1
    /\ t \in rowTasks
    /\ variant = "part_001"
    /\ rowTasks' = rowTasks \ {t}
    /\ ing' = [ing EXCEPT ![t.req] = [@ EXCEPT !.failed = @ + 1]]
    /\ UNCHANGED <<apart, vdb, analysis, hung, variant, store, nextId, ask, clears, issued>>

RowTaskFallback(t, v) ==
    /\ fails < MaxFail
    /\ fails' = fails + 1
    /\ t \in rowTasks
    /\ variant = "server"
    /\ taskAppend(t, v, "random")
    /\ UNCHANGED <<apart, analysis, hung, variant, ask, clears>>

\* ------------------------------------------------------------------ /clear
Clear ==
    /\ clears < MaxClears
    /\ store' = <<>>
    /\ vdb' = EmptyVdb
    /\ nextId' = nextIdOnClear(variant, nextId)
    /\ clears' = clears + 1
    /\ UNCHANGED <<apart, analysis, hung, variant, ing, rowTasks, ask, fails, issued>>

\* -------------------------------------------------------------------- /ask
\* The retrieval without the sort: the candidates are scored and cut to k without being sorted.
search_NoSort(st, qEmb, k, fsys, fsub) ==
    LET candidates == filterSeq(st, fsys, fsub)
        scoredAll == [i \in 1..Len(candidates) |->
                         [rec |-> candidates[i],
                          score |-> cosineSim(qEmb, candidates[i].embedding)]]
    IN  slice(scoredAll, Min(k, Len(candidates)))

\* The retrieval of /ask: filter by tags, score, sort descending, keep the
\* first Math.min(k, candidates.length) (VertexDB.search: slice(0, k)).
search(st, qEmb, k, fsys, fsub) ==
    LET candidates == filterSeq(st, fsys, fsub)
        scoredAll == [i \in 1..Len(candidates) |->
                         [rec |-> candidates[i],
                          score |-> cosineSim(qEmb, candidates[i].embedding)]]
    IN  slice(sortDesc(scoredAll), Min(k, Len(candidates)))

\* The context blocks of the prompt: [[idx+1]] File: <name> (pos <position>)
\* and the chunk's text.
contextBlocks(scored) ==
    [i \in 1..Len(scored) |->
        [n |-> i, fileName |-> scored[i].rec.fileName,
         position |-> scored[i].rec.position, len |-> scored[i].rec.len,
         id |-> scored[i].rec.id]]

\* The sources listed in the reverse of the rank order.
sourcesOf_Reversed(scored) ==
    [i \in 1..Len(scored) |->
        [ref |-> i, fileName |-> scored[Len(scored) + 1 - i].rec.fileName,
         position |-> scored[Len(scored) + 1 - i].rec.position,
         id |-> scored[Len(scored) + 1 - i].rec.id]]

sourcesOf(scored) ==
    [i \in 1..Len(scored) |->
        [ref |-> i, fileName |-> scored[i].rec.fileName,
         position |-> scored[i].rec.position, id |-> scored[i].rec.id]]

\* The validation of /ask without the empty-index check.
askReject_NoEmptyCheck(query, indexSize) ==
    IF query = "" THEN "Missing query" ELSE ""

\* The validation of /ask with the empty-index check before the query check.
askReject_EmptyFirst(query, indexSize) ==
    IF indexSize = 0 THEN "Index is empty. Ingest files first."
    ELSE IF query = "" THEN "Missing query" ELSE ""

\* The validations of /ask, in the handler's order: the error message of the
\* 400 response, or "" when the request passes.
askReject(query, indexSize) ==
    IF query = "" THEN "Missing query"
    ELSE IF indexSize = 0 THEN "Index is empty. Ingest files first."
    ELSE ""

askCanStart(a) == ask[a].pc = "idle" /\ (IF a = 1 THEN TRUE ELSE ask[a - 1].pc # "idle")

\* POST /ask up to its first await: the two validations, then the embedding
\* of the query is requested.
StartAsk(a, b) ==
    /\ askCanStart(a)
    /\ LET body == AskBodies[b]
           rec == [IdleAsk EXCEPT !.body = b, !.emptyAtArrival = (Len(store) = 0)]
           err == askReject(body.query, Len(store))
       IN  ask' = [ask EXCEPT ![a] =
                IF err # ""
                THEN [rec EXCEPT !.pc = "done", !.resp = askError(400, err)]
                ELSE [rec EXCEPT !.pc = "embed", !.embedCalls = @ + 1]]
    /\ UNCHANGED <<apart, vdb, analysis, hung, variant, store, nextId, ing, rowTasks, clears, fails, issued>>

\* The query vector is there: retrieve, build the prompt, call geminiChat.
retrieved(rec, qEmb) ==
    LET body == AskBodies[rec.body]
        scored == search(store, qEmb, body.k, body.system, body.subsystem)
    IN  [rec EXCEPT !.pc = "chat", !.qEmb = qEmb, !.seen = store,
                    !.scored = scored, !.context = contextBlocks(scored),
                    !.chatCalls = @ + 1]

retrieve(a, qEmb) == ask' = [ask EXCEPT ![a] = retrieved(ask[a], qEmb)]

AskEmbedOk(a) ==
    /\ ask[a].pc = "embed"
    /\ ~isHung("ask", a)
    /\ retrieve(a, AskBodies[ask[a].body].vec)
    /\ UNCHANGED <<apart, vdb, analysis, hung, variant, store, nextId, ing, rowTasks, clears, fails, issued>>

\* geminiEmbed throws: the handler's catch answers 500.
AskEmbedFail(a) ==
    /\ ask[a].pc = "embed"
    /\ ~isHung("ask", a)
    /\ variant # "server"
    /\ fails < MaxFail
    /\ fails' = fails + 1
    /\ ask' = [ask EXCEPT ![a] = [@ EXCEPT !.pc = "done", !.failedCall = "embed",
                                          !.resp = askError(500, "embed")]]
    /\ UNCHANGED <<apart, vdb, analysis, hung, variant, store, nextId, ing, rowTasks, clears, issued>>

\* VertexDB.search: generateEmbedding catches the failure and the search goes
\* on with a random query vector.
AskEmbedFallback(a, v) ==
    /\ ask[a].pc = "embed"
    /\ ~isHung("ask", a)
    /\ variant = "server"
    /\ fails < MaxFail
    /\ fails' = fails + 1
    /\ ask' = [ask EXCEPT ![a] = [retrieved(ask[a], v) EXCEPT !.failedCall = "embed"]]
    /\ UNCHANGED <<apart, vdb, analysis, hung, variant, store, nextId, ing, rowTasks, clears, issued>>

AskChatOk(a) ==
    /\ ask[a].pc = "chat"
    /\ ~isHung("ask", a)
    /\ ask' = [ask EXCEPT ![a] =
                  [@ EXCEPT !.pc = "done",
                            !.resp = [status |-> 200, error |-> "", answered |-> TRUE,
                                      sources |-> sourcesOf(ask[a].scored),
                                      used |-> Len(ask[a].scored),
                                      total |-> Len(store)]]]
    /\ UNCHANGED <<apart, vdb, analysis, hung, variant, store, nextId, ing, rowTasks, clears, fails, issued>>

\* A failing completion call that also empties the index.
AskChatFail_DropsIndex(a) ==
    /\ ask[a].pc = "chat"
    /\ ~isHung("ask", a)
    /\ fails < MaxFail
    /\ fails' = fails + 1
    /\ ask' = [ask EXCEPT ![a] = [@ EXCEPT !.pc = "done", !.failedCall = "chat",
                                          !.resp = askError(500, "chat")]]
    /\ store' = <<>>
    /\ UNCHANGED <<apart, vdb, analysis, hung, variant, nextId, ing, rowTasks, clears, issued>>

\* geminiChat throws: the handler's catch answers 500.
AskChatFail(a) ==
    /\ ask[a].pc = "chat"
    /\ ~isHung("ask", a)
    /\ fails < MaxFail
    /\ fails' = fails + 1
    /\ ask' = [ask EXCEPT ![a] = [@ EXCEPT !.pc = "done", !.failedCall = "chat",
                                          !.resp = askError(500, "chat")]]
    /\ UNCHANGED <<apart, vdb, analysis, hung, variant, store, nextId, ing, rowTasks, clears, issued>>

\* ------------------------------------------------- JSON answers and fallback
\* JSON.parse of the completion output: the fences make the text invalid
\* unless the handler strips them first (analyzeDocuments does).
parses(h, out) ==
    IF h = "analyzeDocuments" THEN out.json ELSE out.json /\ ~out.fenced

\* The result of a 200 response: the parsed object, or the handler's
\* fallback structure with the raw text (or its first SUMMARY_CHARS
\* characters) as technicalSummary.  No handler adds a field that tells the
\* two apart.
resultOf(h, out) ==
    IF parses(h, out)
    THEN [status |-> 200, parsed |-> TRUE, rawKept |-> out.len, flagged |-> FALSE]
    ELSE [status |-> 200, parsed |-> FALSE,
          rawKept |-> IF h = "/ask" THEN out.len ELSE Min(out.len, SUMMARY_CHARS),
          flagged |-> FALSE]

\* A request reaches the handler: a missing field is answered 400 (the
\* analyze handlers; /ask: missing query), otherwise the handler builds the
\* prompt and awaits the completion service.
StartAnalysis(q, h, valid) ==
    /\ analysis[q].pc = "idle"
    /\ IF q = 1 THEN TRUE ELSE analysis[q - 1].pc # "idle"
    /\ h \in {"/ask", "/api/gemini/analyze"} => variant = "server"
    /\ analysis' = [analysis EXCEPT ![q] =
                       IF valid
                       THEN [@ EXCEPT !.pc = "chat", !.handler = h]
                       ELSE [@ EXCEPT !.pc = "done", !.handler = h,
                                      !.resp = [NoResult EXCEPT !.status = 400]]]
    /\ UNCHANGED <<apart, vdb, variant, store, nextId, ing, rowTasks, ask, clears, fails, issued, hung>>

\* The completion service returned `out`: parse it, or fall back, and answer.
CompletionReturns(q, out) ==
    /\ analysis[q].pc = "chat"
    /\ analysis' = [analysis EXCEPT ![q] =
                       [@ EXCEPT !.pc = "done", !.out = out,
                                 !.resp = resultOf(analysis[q].handler, out)]]
    /\ UNCHANGED <<apart, vdb, variant, store, nextId, ing, rowTasks, ask, clears, fails, issued, hung>>

\* The completion call failed: the handler's catch answers 500.
CompletionFails(q) ==
    /\ analysis[q].pc = "chat"
    /\ analysis' = [analysis EXCEPT ![q] =
                       [@ EXCEPT !.pc = "done", !.resp = [NoResult EXCEPT !.status = 500]]]
    /\ UNCHANGED <<apart, vdb, variant, store, nextId, ing, rowTasks, ask, clears, fails, issued, hung>>

\* ------------------------------------------------------------ specifications
IngestNext(R) ==
    \/ \E r \in R, b \in 1..Len(Batches) : StartIngestJson(r, b)
    \/ \E r \in R, b \in 1..Len(Batches) : StartIngestFiles(r, b)
    \/ \E r \in R : EmbedChunkOk(r)
    \/ \E r \in R : EmbedChunkFail(r)
    \/ \E r \in R, v \in Vectors : EmbedChunkFallback(r, v)
    \/ \E r \in R : ExtractDone(r)
    \/ \E r \in R : EmbedRowOk(r)
    \/ \E r \in R : EmbedRowFail(r)
    \/ \E r \in R, v \in Vectors : EmbedRowFallback(r, v)
    \/ \E t \in rowTasks : RowTaskOk(t)
    \/ \E t \in rowTasks : RowTaskFail(t)
    \/ \E t \in rowTasks, v \in Vectors : RowTaskFallback(t, v)

AskNext(A) ==
    \/ \E a \in A, b \in 1..Len(AskBodies) : StartAsk(a, b)
    \/ \E a \in A : AskEmbedOk(a)
    \/ \E a \in A : AskEmbedFail(a)
    \/ \E a \in A, v \in Vectors : AskEmbedFallback(a, v)
    \/ \E a \in A : AskChatOk(a)
    \/ \E a \in A : AskChatFail(a)

\* Concurrent ingestion requests and /clear.
Next == IngestNext(Reqs) \/ Clear

Spec == Init /\ [][Next]_vars

\* Ingestion, /clear and /ask requests.
NextAsk == IngestNext(1..MaxAskIngest) \/ Clear \/ AskNext(1..MaxAsks)

SpecAsk == Init /\ [][NextAsk]_vars

\* No /ask request has arrived yet.
asksIdle == \A a \in Asks : ask[a].pc = "idle"

\* No ingestion is under way: every request has answered and no row
\* callback is pending.
settled ==
    /\ \A r \in Reqs : ing[r].pc \in {"idle", "done"}
    /\ rowTasks = {}

\* The index is built (ingestion, /clear), and once it has settled the /ask
\* requests run, concurrently with each other, on an index nothing changes.
NextReAsk ==
    \/ asksIdle /\ IngestNext(1..MaxAskIngest)
    \/ asksIdle /\ Clear
    \/ settled /\ AskNext(Asks)

SpecReAsk == Init /\ [][NextReAsk]_vars

\* The upstream call a request awaits never returns: the fetch of geminiEmbed
\* and geminiChat has no timeout and no abort signal, so nothing ends it.
Hang(kind, n) ==
    /\ ~isHung(kind, n)
    /\ IF kind = "ask" THEN ask[n].pc \in {"embed", "chat"}
       ELSE ing[n].pc \in {"embed", "rowEmbed"}
    /\ hung' = hung \cup {[kind |-> kind, n |-> n]}
    /\ UNCHANGED <<apart, vdb, variant, store, nextId, ing, rowTasks, ask, clears, fails, issued,
                   analysis>>

\* The continuations of request a of /ask after an upstream call returned.
AskReturns(a) ==
    \/ AskEmbedOk(a)
    \/ AskEmbedFail(a)
    \/ \E v \in Vectors : AskEmbedFallback(a, v)
    \/ AskChatOk(a)
    \/ AskChatFail(a)

\* The continuations of ingestion request r after an awaited call returned.
IngestReturns(r) ==
    \/ EmbedChunkOk(r)
    \/ EmbedChunkFail(r)
    \/ \E v \in Vectors : EmbedChunkFallback(r, v)
    \/ ExtractDone(r)
    \/ EmbedRowOk(r)
    \/ EmbedRowFail(r)
    \/ \E v \in Vectors : EmbedRowFallback(r, v)

\* Ingestion and /ask requests whose upstream calls may hang.
NextLive ==
    \/ IngestNext(1..MaxAskIngest)
    \/ AskNext(1..MaxAsks)
    \/ \E a \in 1..MaxAsks : Hang("ask", a)
    \/ \E r \in 1..MaxAskIngest : Hang("ingest", r)

\* Every upstream call that does not hang returns, and the event loop then
\* runs the handler's continuation.
Fairness ==
    /\ \A a \in Asks : WF_vars(AskReturns(a))
    /\ \A r \in Reqs : WF_vars(IngestReturns(r))

SpecLive == Init /\ [][NextLive]_vars /\ Fairness

\* The requests for a JSON answer.
NextAnalyze ==
    \/ \E q \in Analyses, h \in Handlers, valid \in BOOLEAN : StartAnalysis(q, h, valid)
    \/ \E q \in Analyses, out \in Completions : CompletionReturns(q, out)
    \/ \E q \in Analyses : CompletionFails(q)

SpecAnalyze == Init /\ [][NextAnalyze]_vars

\* chunkText on its own: the call is drawn at the start, with
\* 0 <= overlap < size, and the loop runs to its return; the loop is
\* synchronous code, which the engine runs without interruption.
InitChunk ==
    /\ variant \in Variants
    /\ store = <<>>
    /\ nextId = 1
    /\ ing = [r \in Reqs |-> IdleIngest]
    /\ rowTasks = {}
    /\ ask = [a \in Asks |-> IdleAsk]
    /\ clears = 0
    /\ fails = 0
    /\ issued = <<>>
    /\ analysis = [q \in Analyses |-> IdleAnalysis]
    /\ hung = {}
    /\ vdb = EmptyVdb
    /\ chunker \in {called(c) : c \in {x \in ChunkCalls : x.overlap < x.size}}
    /\ sanit = IdleSanit
    /\ mcp = IdleMcp
    /\ drive = IdleDrive

\* The Drive and auth controllers on their own: sessions sign in and requests
\* of any session interleave at their awaits.
NextDrive ==
    \/ \E s \in Sessions : AuthCallback(s)
    \/ \E q \in DriveReqs, s \in Sessions : StartListFiles(q, s)
    \/ \E q \in DriveReqs, s \in Sessions : StartGetFileContent(q, s)
    \/ \E q \in DriveReqs, mime \in MimeTypes : MetaReturns(q, mime)
    \/ \E q \in DriveReqs : ContentReturns(q)
    \/ \E q \in DriveReqs : DriveResponds(q)
    \/ \E q \in DriveReqs : DriveCallFails(q)

SpecDrive == Init /\ [][NextDrive]_vars

\* MCP_Server on its own (only server.js has one): training jobs are started
\* and their timers tick in any order.
InitMcp == Init /\ variant = "server"

NextMcp == StartTraining \/ \E n \in 1..MaxJobs, inc \in Increments : Tick(n, inc)

SpecMcp == InitMcp /\ [][NextMcp]_vars

\* sanitizeContent on its own: the argument is drawn at the start.
InitSanit ==
    /\ variant \in Variants
    /\ store = <<>>
    /\ nextId = 1
    /\ ing = [r \in Reqs |-> IdleIngest]
    /\ rowTasks = {}
    /\ ask = [a \in Asks |-> IdleAsk]
    /\ clears = 0
    /\ fails = 0
    /\ issued = <<>>
    /\ analysis = [q \in Analyses |-> IdleAnalysis]
    /\ hung = {}
    /\ vdb = EmptyVdb
    /\ chunker = IdleChunker
    /\ sanit \in {[IdleSanit EXCEPT !.pc = "called", !.input = x] : x \in SanInputs}
    /\ mcp = IdleMcp
    /\ drive = IdleDrive

NextSanit == SanitizeCall \/ SanitizeAgain

SpecSanit == InitSanit /\ [][NextSanit]_vars

NextChunk == ChunkEnter \/ ChunkIter

SpecChunk == InitChunk /\ [][NextChunk]_vars /\ WF_vars(NextChunk)

\* ------------------------------------------------------------------ claims

\* C1: under any interleaving of concurrent /ingest and /ingest-json requests
\* no two records present in the index at the same time share an id.
C1_UniqueIds ==
    \A i, j \in 1..Len(store) : i # j => store[i].id # store[j].id

\* Two requests, one on each endpoint, whose appends have interleaved.
C1_Witness ==
    /\ ing[1].endpoint # ing[2].endpoint
    /\ \E i, j, k \in 1..Len(store) :
          /\ i < j /\ j < k
          /\ store[i].req = store[k].req
          /\ store[j].req # store[i].req

\* C2 (as claimed): ids are strictly increasing over the whole lifetime of the
\* index and never assigned twice, also across a clear.
C2_NeverReused ==
    \A i, j \in 1..Len(issued) : i < j => issued[i] < issued[j]

\* C2 (amended): the ids of the records held in the index are strictly
\* increasing in insertion order, and numbering starts again at 1 after a
\* clear (the counter is reset, ids issued before the clear are issued again).
C2_IncreasingSinceClear ==
    /\ \A i, j \in 1..Len(store) : i < j => store[i].id < store[j].id
    /\ store # <<>> => store[1].id = 1

\* A record appended after a clear that followed earlier appends.
C2_Witness ==
    /\ clears > 0
    /\ store # <<>>
    /\ Len(issued) > Len(store)

\* C3: for each document (one document of one request) the positions of its
\* records in the index are 0, 1, 2, ... in insertion order: no gap, no
\* repeated position.
C3_ContiguousPositions ==
    \A r \in Reqs, d \in 1..2 :
        LET ofDoc(x) == x.req = r /\ x.doc = d
            recs == SelectSeq(store, ofDoc)
        IN  \A i \in 1..Len(recs) : recs[i].position = i - 1

\* C4: the `added` of a 200 response is the number of records the request
\* appends over its whole lifetime.
C4_AddedCountsEveryAppend ==
    \A r \in Reqs :
        ing[r].resp.status = 200 => ing[r].resp.added = ing[r].appended

\* The records a request appends when every embedding call succeeds.
expectedRecords(v, rec) ==
    LET docs == docsOf(rec)
        n(d) == IF isBlank(docs[d]) THEN 0
                ELSE Len(chunksOf(docs[d]))
                     + (IF (rec.endpoint = "/ingest-json" /\ rowLevelJson(v, docs[d]))
                           \/ (rec.endpoint = "/ingest" /\ rowLevelFile(v, docs[d]))
                        THEN docs[d].rows ELSE 0)
    IN  IF Len(docs) = 0 THEN 0
        ELSE IF Len(docs) = 1 THEN n(1)
        ELSE n(1) + n(2)

\* C5: when embedding calls of an ingestion request fail, only those chunks
\* are skipped: the request still answers 200, every other chunk is appended
\* and `added` is the number of chunks appended.
C5_FailureSkipsOneChunk ==
    \A r \in Reqs :
        (/\ ing[r].pc = "done"
         /\ ing[r].failed > 0
         /\ \A t \in rowTasks : t.req # r)
        => /\ ing[r].resp.status = 200
           /\ ing[r].resp.added = ing[r].appended
           /\ ing[r].appended = expectedRecords(variant, ing[r]) - ing[r].failed

\* C6: every vector held in the index was returned by the embedding service
\* for the record's text; none is a substituted random vector.
C6_OnlyServiceVectors ==
    \A i \in 1..Len(store) : store[i].src = "service"

EmptyIndexMessage == "Index is empty. Ingest files first."

\* C7: an /ask (with a query) that arrives while the index holds no chunk is
\* answered 400 with the empty-index error, carries no answer and no source,
\* and has called neither the embedding nor the completion service.
C7_EmptyIndexError ==
    \A a \in Asks :
        (/\ ask[a].pc # "idle"
         /\ ask[a].emptyAtArrival
         /\ AskBodies[ask[a].body].query # "")
        => /\ ask[a].pc = "done"
           /\ ask[a].resp.status = 400
           /\ ask[a].resp.error = EmptyIndexMessage
           /\ ~ask[a].resp.answered
           /\ ask[a].resp.sources = <<>>
           /\ ask[a].embedCalls = 0
           /\ ask[a].chatCalls = 0

\* An /ask answered with the empty-index error after an ingestion and a clear.
C7_Witness ==
    \E a \in Asks :
        /\ ask[a].resp.error = EmptyIndexMessage
        /\ clears > 0
        /\ issued # <<>>

\* C8: a request without its required field (an /ask without query, an
\* /ingest-json without documents) is answered 400 in the step it arrives,
\* with no embedding or completion call and the index left as it was; for
\* /ask the missing query is reported even when the index is empty.
C8_Step ==
    /\ \A a \in Asks :
          (/\ ask[a].pc = "idle"
           /\ ask'[a].pc # "idle"
           /\ AskBodies[ask'[a].body].query = "")
          => /\ ask'[a].pc = "done"
             /\ ask'[a].resp.status = 400
             /\ ask'[a].resp.error = "Missing query"
             /\ ask'[a].embedCalls = 0
             /\ ask'[a].chatCalls = 0
             /\ store' = store
             /\ nextId' = nextId
    /\ \A r \in Reqs :
          (/\ ing[r].pc = "idle"
           /\ ing'[r].pc # "idle"
           /\ ing'[r].endpoint = "/ingest-json"
           /\ Len(docsOf(ing'[r])) = 0)
          => /\ ing'[r].pc = "done"
             /\ ing'[r].resp.status = 400
             /\ ing'[r].calls = 0
             /\ rowTasks' = rowTasks
             /\ store' = store
             /\ nextId' = nextId

\* C8: every step that answers an /ingest-json or /ask request lacking a
\* required field answers 400, makes no upstream call and leaves the index
\* and the id counter unchanged; a missing query wins over the empty index.
C8_ValidationRejects == [][C8_Step]_vars

\* An /ask without query rejected on an empty index, and an /ingest-json
\* without documents rejected.
C8_Witness ==
    /\ \E a \in Asks :
          /\ ask[a].resp.error = "Missing query"
          /\ ask[a].emptyAtArrival
    /\ \E r \in Reqs :
          /\ ing[r].endpoint = "/ingest-json"
          /\ ing[r].resp.status = 400

RECURSIVE sumLen(_)
sumLen(blocks) ==
    IF blocks = <<>> THEN 0 ELSE Head(blocks).len + sumLen(Tail(blocks))

\* C9: the chunks placed in the prompt of an /ask never add up to more than
\* maxChars characters and are never more than maxChunks.
C9_BudgetEnforced ==
    \A a \in Asks :
        /\ sumLen(ask[a].context) <= maxChars
        /\ Len(ask[a].context) <= maxChunks

isPrefix(s, t) == Len(s) <= Len(t) /\ \A i \in 1..Len(s) : s[i] = t[i]

\* Values of k the retrievals are compared at.
Ks == {-1, 0, 1, 2, 3, MAX_SNIPPETS}

\* The retrieved list of request a compared with the retrieval, on the same
\* index, query vector and filter, at every k of K.
prefixAt(a, K) ==
    LET body == AskBodies[ask[a].body]
        at(k) == search(ask[a].seen, ask[a].qEmb, k, body.system, body.subsystem)
    IN  \A k \in K :
            /\ k < body.k => isPrefix(at(k), ask[a].scored)
            /\ body.k < k => isPrefix(ask[a].scored, at(k))

\* C11: for the same query vector, filter and index, the retrieval at k1 is
\* a prefix of the retrieval at k2 whenever k1 < k2 (k is read from the
\* request body and passed to slice as it is, negative values included).
C11_PrefixAnyK ==
    \A a \in Asks :
        ask[a].pc \in {"chat", "done"} /\ ask[a].seen # <<>> => prefixAt(a, Ks)

\* The part of C11 that holds: for the same query vector, filter and index,
\* the retrieval at k1 is a prefix of the retrieval at k2 when 0 <= k1 < k2.
C11_PrefixNonNegativeK ==
    \A a \in Asks :
        ask[a].pc \in {"chat", "done"} /\ ask[a].seen # <<>>
        => prefixAt(a, {k \in Ks : k >= 0})

\* The index request a searched was not empty and none of its records
\* passes the request's tag filter.
noMatch(a) ==
    LET body == AskBodies[ask[a].body]
    IN  /\ ask[a].pc \in {"chat", "done"}
        /\ ask[a].seen # <<>>
        /\ \A j \in 1..Len(ask[a].seen) :
              ~matches(ask[a].seen[j], body.system, body.subsystem)

\* C12: an /ask on a non-empty index whose tag filter no chunk satisfies
\* retrieves nothing and, unless the completion call itself fails, is
\* answered 200 with an answer, no sources and a used count of 0.
C12_NoMatchSucceeds ==
    \A a \in Asks :
        noMatch(a)
        => /\ ask[a].scored = <<>>
           /\ ask[a].context = <<>>
           /\ ask[a].pc = "done"
              => IF ask[a].resp.error = "chat"
                 THEN ask[a].resp.status = 500
                 ELSE /\ ask[a].resp.status = 200
                      /\ ask[a].resp.answered
                      /\ ask[a].resp.sources = <<>>
                      /\ ask[a].resp.used = 0

\* An /ask with a tag filter answered 200 on an index none of whose records
\* passes the filter.
C12_Witness ==
    \E a \in Asks :
        /\ noMatch(a)
        /\ AskBodies[ask[a].body].system # <<>>
        /\ ask[a].pc = "done"
        /\ ask[a].resp.status = 200
        /\ ask[a].resp.total > 0

\* C13: in a 200 response of /ask the i-th context block of the prompt and
\* the i-th source are the i-th scored chunk, with its document name and
\* position; blocks and sources are numbered 1..used without gap and are in
\* rank order.
C13_CitationsAligned ==
    \A a \in Asks :
        (ask[a].pc = "done" /\ ask[a].resp.status = 200)
        => LET sc == ask[a].scored
               cx == ask[a].context
               so == ask[a].resp.sources
           IN  /\ Len(cx) = Len(sc)
               /\ Len(so) = Len(sc)
               /\ ask[a].resp.used = Len(sc)
               /\ \A i \in 1..Len(sc) :
                     /\ cx[i].n = i
                     /\ so[i].ref = i
                     /\ cx[i].id = sc[i].rec.id
                     /\ so[i].id = sc[i].rec.id
                     /\ cx[i].fileName = sc[i].rec.fileName
                     /\ so[i].fileName = sc[i].rec.fileName
                     /\ cx[i].position = sc[i].rec.position
                     /\ so[i].position = sc[i].rec.position
                     /\ \E j \in 1..Len(ask[a].seen) : ask[a].seen[j] = sc[i].rec
               /\ \A i, j \in 1..Len(sc) :
                     i < j => ~scoreLess(sc[i].score, sc[j].score)

\* A 200 response with two sources or more whose rank order is not the order
\* of insertion.
C13_Witness ==
    \E a \in Asks :
        /\ ask[a].pc = "done"
        /\ ask[a].resp.status = 200
        /\ Len(ask[a].resp.sources) >= 2
        /\ ask[a].resp.sources[1].id > ask[a].resp.sources[2].id

\* The (document name, position) pairs of the sources of a response.
citations(a) ==
    [i \in 1..Len(ask[a].resp.sources) |->
        <<ask[a].resp.sources[i].fileName, ask[a].resp.sources[i].position>>]

\* C14: two /ask requests with the same query, k and tag filters, answered on
\* the same index, cite the same (document name, position) pairs in the same
\* order.
C14_SameCitations ==
    \A a1, a2 \in Asks :
        (/\ ask[a1].pc = "done" /\ ask[a1].resp.status = 200
         /\ ask[a2].pc = "done" /\ ask[a2].resp.status = 200
         /\ ask[a1].body = ask[a2].body
         /\ ask[a1].seen = ask[a2].seen)
        => citations(a1) = citations(a2)

\* C15: a step of an /ask request, whether it validates, retrieves, answers
\* or fails at the embedding or completion call, leaves the records of the
\* index, their order and the next id as they were, and an /ask with a query
\* arriving on a non-empty index is taken on whatever happened to earlier
\* requests.
C15_Step ==
    ask' # ask
    => /\ store' = store
       /\ nextId' = nextId
       /\ \A a \in Asks :
             (/\ ask[a].pc = "idle"
              /\ ask'[a].pc # "idle"
              /\ AskBodies[ask'[a].body].query # ""
              /\ store # <<>>)
             => ask'[a].pc = "embed"

\* C15: every step of an /ask request leaves the index (records, order, next
\* id) unchanged, and the index keeps serving the /ask requests that follow.
C15_AskLeavesIndex == [][C15_Step]_vars

\* One /ask has failed at an upstream call and another has been answered on
\* the index as it still is, non-empty.
C15_Witness ==
    \E a1, a2 \in Asks :
        /\ ask[a1].pc = "done" /\ ask[a1].failedCall # ""
        /\ ask[a1].resp.status = 500
        /\ ask[a2].pc = "done" /\ ask[a2].resp.status = 200
        /\ ask[a2].seen = store
        /\ store # <<>>

\* C16: an /ask whose query embedding call or completion call has failed
\* ends with an error response that carries the upstream error and holds no
\* answer and no sources.
C16_UpstreamFailureIsError ==
    \A a \in Asks :
        ask[a].failedCall # ""
        => /\ ask[a].pc = "done"
           /\ ask[a].resp.status = 500
           /\ ask[a].resp.error = ask[a].failedCall
           /\ ~ask[a].resp.answered
           /\ ask[a].resp.sources = <<>>

\* C17: when the completion output does not parse as JSON, the 200 response
\* is the fallback structure, holds the whole raw completion text and is
\* flagged as a fallback.
C17_FallbackKeepsRaw ==
    \A q \in Analyses :
        (/\ analysis[q].pc = "done"
         /\ analysis[q].resp.status = 200
         /\ ~parses(analysis[q].handler, analysis[q].out))
        => /\ ~analysis[q].resp.parsed
           /\ analysis[q].resp.rawKept = analysis[q].out.len
           /\ analysis[q].resp.flagged

\* The chunks the Chunker yields for the non-blank documents of a request.
chunkTotal(docs) ==
    LET n(d) == IF isBlank(docs[d]) THEN 0 ELSE Len(chunksOf(docs[d]))
    IN  IF Len(docs) = 0 THEN 0 ELSE IF Len(docs) = 1 THEN n(1) ELSE n(1) + n(2)

\* The row records the row-level ingestion of /ingest-json starts for them.
rowTotal(v, docs) ==
    LET n(d) == IF ~isBlank(docs[d]) /\ rowLevelJson(v, docs[d]) THEN docs[d].rows ELSE 0
    IN  IF Len(docs) = 0 THEN 0 ELSE IF Len(docs) = 1 THEN n(1) ELSE n(1) + n(2)

\* This step answers 200 to /ingest-json request r, no embedding call of r
\* has failed, and between the arrival of r and this answer no /clear was
\* served and no other request appended a record.
answersAlone(r) ==
    /\ ing[r].pc # "done"
    /\ ing'[r].pc = "done"
    /\ ing'[r].endpoint = "/ingest-json"
    /\ ing'[r].resp.status = 200
    /\ ing'[r].failed = 0
    /\ clears = ing'[r].clears0
    /\ Len(store') >= ing'[r].before
    /\ \A i \in (ing'[r].before + 1)..Len(store') : store'[i].req = r

\* No record of the answered request belongs to a blank document.
blankGivesNothing(r) ==
    \A i \in 1..Len(store') :
        store'[i].req = r => ~isBlank(docsOf(ing'[r])[store'[i].doc])

C18_StepAsClaimed ==
    \A r \in Reqs :
        answersAlone(r)
        => /\ blankGivesNothing(r)
           /\ ing'[r].resp.added = chunkTotal(docsOf(ing'[r]))
           /\ ing'[r].resp.total = ing'[r].before + ing'[r].resp.added

\* C18 (as claimed): an /ingest-json request handled alone with every
\* embedding call succeeding answers with `added` equal to the number of
\* chunks of its non-blank documents and total = index size before + added.
C18_AddedIsChunkCount == [][C18_StepAsClaimed]_vars

C18_StepAmended ==
    \A r \in Reqs :
        answersAlone(r)
        => LET docs == docsOf(ing'[r])
               added == ing'[r].resp.added
           IN  /\ blankGivesNothing(r)
               /\ chunkTotal(docs) <= added
               /\ added <= chunkTotal(docs) + rowTotal(variant, docs)
               /\ docs = <<DocFiller, DocEmpty>> => added = 3
               /\ ing'[r].resp.total = ing'[r].before + added

\* C18 (amended): such a request stores nothing for blank documents and
\* answers with total = index size before + added, where `added` counts the
\* chunks of the non-blank documents (3 for the 3000-character text) plus,
\* for CSV-like documents in part_001 and server.js, the row records whose
\* callbacks have appended before the answer (none up to all of the rows).
C18_AddedIsChunksAndRows == [][C18_StepAmended]_vars

\* The 3000-character document and an empty one ingested on an index that
\* already held records: added 3, total 3 more than before.
C18_Witness ==
    \E r \in Reqs :
        /\ ing[r].pc = "done"
        /\ ing[r].endpoint = "/ingest-json"
        /\ Batches[ing[r].batch] = <<DocFiller, DocEmpty>>
        /\ ing[r].before > 0
        /\ ing[r].resp.status = 200
        /\ ing[r].resp.added = 3
        /\ ing[r].resp.total = ing[r].before + 3

\* The records request r has in the index.
recordsOf(r) == LET ofReq(x) == x.req = r IN SelectSeq(store, ofReq)

\* Requests r1 and r2 ingested the same documents through the same endpoint,
\* both have answered 200 and finished all their work, no embedding call
\* failed and the index was not cleared.
sameIngestedTwice(r1, r2) ==
    /\ r1 # r2
    /\ ing[r1].pc = "done" /\ ing[r1].resp.status = 200
    /\ ing[r2].pc = "done" /\ ing[r2].resp.status = 200
    /\ ing[r1].endpoint = ing[r2].endpoint
    /\ ing[r1].batch = ing[r2].batch
    /\ ing[r1].failed = 0 /\ ing[r2].failed = 0
    /\ rowTasks = {}
    /\ clears = 0

\* Each of the two requests holds its own full set of records: as many, for
\* the same documents, kinds and positions, under ids of their own.
C19_TwoSets ==
    \A r1, r2 \in Reqs :
        sameIngestedTwice(r1, r2)
        => LET s1 == recordsOf(r1)
               s2 == recordsOf(r2)
           IN  /\ Len(s1) = Len(s2)
               /\ \A i \in 1..Len(s1) :
                     \E j \in 1..Len(s2) :
                         /\ s2[j].fileName = s1[i].fileName
                         /\ s2[j].doc = s1[i].doc
                         /\ s2[j].kind = s1[i].kind
                         /\ s2[j].position = s1[i].position
                         /\ s2[j].len = s1[i].len
               /\ \A i \in 1..Len(s1), j \in 1..Len(s2) : s1[i].id # s2[j].id

C19_Step ==
    /\ clears' = clears => isPrefix(store, store')
    /\ C19_TwoSets'

\* C19: ingesting the same documents twice, no clear in between, leaves two
\* independent sets of records: the second ingestion appends as many records
\* as the first, under new ids, and no step but /clear changes or removes a
\* record that is in the index.
C19_ReingestAppends == [][C19_Step]_vars

\* The same two documents ingested twice through /ingest-json, the second
\* time after the first request had answered.
C19_Witness ==
    \E r1, r2 \in Reqs :
        /\ sameIngestedTwice(r1, r2)
        /\ ing[r1].endpoint = "/ingest-json"
        /\ Batches[ing[r1].batch] = <<DocA, DocB>>
        /\ ing[r2].before = Len(recordsOf(r1))
        /\ Len(recordsOf(r2)) = 3

\* C20: every upstream call is bounded by a timeout, so every /ask and every
\* ingestion request that has arrived is answered in the end, also when an
\* upstream call it awaits never returns.
C20_EveryRequestAnswered ==
    /\ \A a \in Asks : (ask[a].pc # "idle") ~> (ask[a].pc = "done")
    /\ \A r \in Reqs : (ing[r].pc # "idle") ~> (ing[r].pc = "done")

\* C21: within one ingestion request the records of one document are appended
\* in strictly increasing position order per kind (row or chunk): of two
\* records of the same request, document and kind, the one earlier in the
\* index has the smaller position, whatever order the embedding calls
\* complete in.
C21_AppendedInPositionOrder ==
    \A i, j \in 1..Len(store) :
        (/\ i < j
         /\ store[i].req = store[j].req
         /\ store[i].doc = store[j].doc
         /\ store[i].kind = store[j].kind)
        => store[i].position < store[j].position

\* What VertexDB.search reads: one entry per element of this.embeddings, with
\* this.documents[index] and this.metadata[index] beside it (undefined when
\* the other array is shorter).
seenBySearch(st, v) ==
    [i \in 1..Len(v.embeddings) |->
        [embedding |-> v.embeddings[i],
         document |-> IF i <= Len(st) THEN st[i] ELSE Undefined,
         metadata |-> IF i <= Len(v.metadata) THEN v.metadata[i] ELSE Undefined]]

\* C22: under any interleaving of addDocument, search and clear, every record
\* a search can see is complete (id, text, vector and metadata all set), and
\* VertexDB's documents, embeddings and metadata arrays and its id map always
\* have the same size and describe the same record at each index.
C22_ArraysAgree ==
    variant = "server" =>
        /\ Len(vdb.embeddings) = Len(store)
        /\ Len(vdb.metadata) = Len(store)
        /\ Cardinality(DOMAIN vdb.index) = Len(store)
        /\ \A i \in 1..Len(store) :
              /\ vdb.embeddings[i] = store[i].embedding
              /\ vdb.metadata[i] = metaOf(store[i])
              /\ store[i].id \in DOMAIN vdb.index
              /\ vdb.index[store[i].id] = store[i]
        /\ \A i \in 1..Len(vdb.embeddings) :
              LET e == seenBySearch(store, vdb)[i]
              IN  /\ e.document # Undefined
                  /\ e.metadata # Undefined
                  /\ e.document.id >= 1
                  /\ e.document.len > 0
                  /\ e.embedding \in Vectors
                  /\ e.embedding = e.document.embedding
                  /\ e.metadata = metaOf(e.document)

\* A search has read a VertexDB that was cleared and written to again while
\* row callbacks of the ingestion were still in flight.
C22_Witness ==
    /\ variant = "server"
    /\ clears > 0
    /\ Len(store) >= 2
    /\ rowTasks # {}
    /\ \E a \in Asks : ask[a].pc = "chat" /\ ask[a].seen # <<>>

\* The first `stride` characters of every chunk from k on but the last,
\* followed by the whole last chunk.
RECURSIVE rebuild(_, _, _)
rebuild(chunks, stride, k) ==
    IF k > Len(chunks) THEN <<>>
    ELSE IF k = Len(chunks) THEN chunks[k]
    ELSE SubSeq(chunks[k], 1, stride) \o rebuild(chunks, stride, k + 1)

\* C23: for 0 <= overlap < size, chunk i of chunkText(T, size, overlap) is
\* T[i*(size-overlap) : min(i*(size-overlap)+size, len(T))]; the first
\* (size - overlap) characters of every chunk but the last, followed by the
\* whole last chunk, give T back; every character of T is in some chunk.
C23_ChunksCoverText ==
    chunker.pc = "done" =>
        LET T == chunker.text
            stride == chunker.size - chunker.overlap
            chunks == chunker.chunks
        IN  /\ \A k \in 1..Len(chunks) :
                  chunks[k] = sliceText(T, (k - 1) * stride,
                                        Min((k - 1) * stride + chunker.size, Len(T)))
            /\ rebuild(chunks, stride, 1) = T
            /\ \A p \in 1..Len(T) :
                  \E k \in 1..Len(chunks) :
                      /\ (k - 1) * stride < p
                      /\ p <= (k - 1) * stride + Len(chunks[k])
                      /\ chunks[k][p - (k - 1) * stride] = T[p]

\* chunkText has returned three overlapping chunks of a short text.
C23_Witness ==
    /\ chunker.pc = "done"
    /\ chunker.overlap > 0
    /\ Len(chunker.chunks) >= 3
    /\ Len(chunker.chunks[Len(chunker.chunks)]) < chunker.size

\* C24: with size 1200 and overlap 200 each chunk begins exactly 1000
\* characters after the previous one, every chunk but the last has exactly
\* 1200 characters, and the last chunk ends at len(T) and is the only chunk
\* that ends there.
C24_DefaultStride ==
    (chunker.pc = "done" /\ chunker.size = 1200 /\ chunker.overlap = 200) =>
        LET n == Len(chunker.chunks)
            endAt(k) == chunker.starts[k] + Len(chunker.chunks[k])
        IN  /\ Len(chunker.starts) = n
            /\ \A k \in 1..(n - 1) :
                  /\ chunker.starts[k + 1] = chunker.starts[k] + 1000
                  /\ Len(chunker.chunks[k]) = 1200
                  /\ endAt(k) < Len(chunker.text)
            /\ n > 0 => (chunker.starts[1] = 0 /\ endAt(n) = Len(chunker.text))

\* chunkText has split a text of more than 2200 characters with the defaults.
C24_Witness ==
    /\ chunker.pc = "done"
    /\ chunker.size = 1200
    /\ chunker.overlap = 200
    /\ Len(chunker.text) > 2200
    /\ Len(chunker.chunks) = 3

\* What chunkText has returned: nothing for the empty text, the text itself
\* for a text no longer than size, and in any case no chunk that is empty or
\* longer than size.
chunkResultOk ==
    /\ chunker.text = <<>> => chunker.chunks = <<>>
    /\ (chunker.text # <<>> /\ Len(chunker.text) <= chunker.size)
           => chunker.chunks = <<chunker.text>>
    /\ \A k \in 1..Len(chunker.chunks) :
          /\ chunker.chunks[k] # <<>>
          /\ Len(chunker.chunks[k]) <= chunker.size

\* C25: chunkText terminates whenever 0 <= overlap < size; an empty text gives
\* zero chunks, a text no longer than size gives exactly one chunk equal to
\* the text, and no chunk is empty or longer than size.
C25_Terminates ==
    /\ <>(chunker.pc = "done")
    /\ [](chunker.pc = "done" => chunkResultOk)

\* chunkText has returned from a call that advanced by a single character
\* per chunk (overlap = size - 1) and needed the loop at least three times.
C25_Witness ==
    /\ chunker.pc = "done"
    /\ chunker.size > 1
    /\ chunker.overlap = chunker.size - 1
    /\ Len(chunker.chunks) >= 3

\* The ranges the ingestion handlers take from chunkText(len, size, overlap)
\* are the ranges the loop produces.
ChunkRangesAgree ==
    chunker.pc = "done" =>
        LET ranges == chunkText(Len(chunker.text), chunker.size, chunker.overlap)
        IN  /\ Len(ranges) = Len(chunker.chunks)
            /\ \A k \in 1..Len(ranges) :
                  /\ ranges[k].start = chunker.starts[k]
                  /\ ranges[k].end = chunker.starts[k] + Len(chunker.chunks[k])

\* C26: sanitizeContent is idempotent: for every string x, also with control
\* characters and mixed whitespace, sanitizeContent(sanitizeContent(x)) equals
\* sanitizeContent(x), and the result has no control character, no run of two
\* whitespace characters and no leading or trailing whitespace.
C26_Idempotent ==
    (sanit.pc \in {"once", "twice"} /\ sanit.input.defined) =>
        LET y == sanit.out.value
        IN  /\ ~sanit.out.threw
            /\ \A p \in 1..Len(y) : y[p] \in {"a", " "}
            /\ \A p \in 1..(Len(y) - 1) :
                  ~(y[p] \in whitespace /\ y[p + 1] \in whitespace)
            /\ y # <<>> => (y[1] \notin whitespace /\ y[Len(y)] \notin whitespace)
            /\ sanit.pc = "twice" => sanit.again = sanit.out

\* sanitizeContent has been applied twice to a text with a control character
\* between two whitespace characters, and the first result kept a space.
C26_Witness ==
    /\ sanit.pc = "twice"
    /\ sanit.input.defined
    /\ \E p \in 2..(Len(sanit.input.text) - 1) :
          /\ sanit.input.text[p] \notin keptClass
          /\ sanit.input.text[p - 1] \in whitespace \cap keptClass
          /\ sanit.input.text[p + 1] \in whitespace \cap keptClass
    /\ \E p \in 1..Len(sanit.out.value) : sanit.out.value[p] = " "

\* C27: sanitizeContent returns the empty string for empty input and for
\* undefined input, and never raises an error.
C27_EmptyForEmptyOrUndefined ==
    sanit.pc \in {"once", "twice"} =>
        /\ ~sanit.out.threw
        /\ sanit.input \in {str(<<>>), undefinedArg} => sanit.out.value = <<>>

\* C28: once a /clear has completed, the index holds only records appended by
\* ingestion requests that started after that clear: a request that was
\* suspended at an embedding call when the clear ran appends nothing
\* afterwards, so every record in the index belongs to a request that has seen
\* as many clears at its start as have been served by now.
C28_NoAppendAcrossClear ==
    \A i \in 1..Len(store) : ing[store[i].req].clears0 = clears

\* What holds of the training jobs in one state: progress within 0..100,
\* status 'completed' exactly when progress is 100 and 'training' otherwise,
\* job ids pairwise distinct.
jobsOk(m) ==
    /\ \A id \in DOMAIN m.jobs :
          /\ m.jobs[id].progress \in 0..100
          /\ m.jobs[id].status \in {"training", "completed"}
          /\ m.jobs[id].status = "completed" <=> m.jobs[id].progress = 100
    /\ \A i, j \in 1..Len(m.issuedIds) :
          i # j => m.issuedIds[i] # m.issuedIds[j]

\* C29: for every training job of MCP_Server, in every reachable state,
\* progress is between 0 and 100 and never decreases from one step to the
\* next, status is 'completed' exactly when progress is 100 and 'training'
\* otherwise, and once a job is completed no later step changes it; the job
\* ids issued by startTraining are pairwise distinct.
C29_Step ==
    /\ jobsOk(mcp')
    /\ \A id \in DOMAIN mcp.jobs :
          /\ id \in DOMAIN mcp'.jobs
          /\ mcp'.jobs[id].progress >= mcp.jobs[id].progress
          /\ mcp.jobs[id].status = "completed" => mcp'.jobs[id] = mcp.jobs[id]

C29_JobsProgress == [][C29_Step]_vars

\* One job is completed and its interval cleared while a second job, started
\* later, is part of the way.
C29_Witness ==
    /\ Len(mcp.timers) = 2
    /\ mcp.jobs[mcp.timers[1].jobId].status = "completed"
    /\ ~mcp.timers[1].active
    /\ mcp.jobs[mcp.timers[2].jobId].progress \in 1..99

\* C30: every Drive API call made for a request goes out with the OAuth tokens
\* of that request's own session, also when requests of different sessions
\* are interleaved at the awaits between the calls of getFileContent.
C30_OwnSessionTokens ==
    \A q \in DriveReqs :
        \A c \in 1..Len(drive.reqs[q].calls) :
            drive.reqs[q].calls[c].credentials = drive.reqs[q].tokens

====
